---- MODULE Spec2Model ----
(***************************************************************************)
(* A model of react-lazyload (src/src/index.js): the module-level registry *)
(* `listeners`, the `pending` removal queue, the shared rate-limited       *)
(* handler `finalLazyLoadHandler`, the LazyLoad component lifecycle        *)
(* (componentDidMount / componentWillUnmount), the check pass              *)
(* (lazyLoadHandler -> checkVisible -> purgePending) and the two geometric *)
(* visibility tests (checkNormalVisible, checkOverflowVisible).            *)
(*                                                                         *)
(* Three specifications are given:                                         *)
(*   Spec      the coordinator: mounts, unmounts, scroll/resize events,    *)
(*             rate-limiter timers and check passes;                       *)
(*   SpecMount mounts and unmounts alone, over all throttle/debounce props;*)
(*   SpecGeom  the two visibility tests applied to bounded geometry.       *)
(***************************************************************************)
EXTENDS Integers, Sequences, FiniteSets, TLC

VARIABLES
    listeners,              \* const listeners = []            (line 12)
    pending,                \* let pending = []                (line 13)
    finalLazyLoadHandler,   \* let finalLazyLoadHandler = null (line 131)
    comp,                   \* the LazyLoad instances: life cycle, props, this.visible, DOM node
    win,                    \* window / document: scroll position, viewport height, listeners
    cont,                   \* overflow containers: scrollTop, LISTEN_FLAG attribute, scroll listener
    timer,                  \* state of the throttle / debounce wrapper
    pc,                     \* "idle" between events, "pass" inside lazyLoadHandler
    idx,                    \* the loop variable i of lazyLoadHandler (1-based)
    rendering,              \* inside the render started by a forceUpdate() of the running pass
    last,                   \* history: what the last step did
    reveals,                \* history: number of false -> true changes of this.visible, per element
    firstProps,             \* history: debounce / throttle props of the element that created the handler
    passLog,                \* history: the running (or last) pass: registered at its start, not yet checked
    probe                   \* SpecGeom: inputs and result of one visibility test

vars == <<listeners, pending, finalLazyLoadHandler, comp, win, cont, timer, pc, idx,
          rendering, last, reveals, firstProps, passLog, probe>>

coordVars == <<listeners, pending, finalLazyLoadHandler, comp, win, cont, timer, pc, idx,
               rendering, last, reveals, firstProps, passLog>>

----------------------------------------------------------------------------
(* Bounds of the model. *)

\* number of LazyLoad instances that may ever be mounted
MaxElems == 2
\* number of overflow containers in the page
MaxContainers == 1
\* reveals[e] saturates here
MaxReveals == 2
\* SpecGeom: largest small coordinate (tops and scroll offsets are 0..MaxCoord)
MaxCoord == 2
\* SpecGeom: largest small extent (element, viewport and container heights are 0..MaxExtent)
MaxExtent == 1
\* SpecGeom: offsets range over -1..MaxOffset
MaxOffset == 1

Elems == 1..MaxElems
Containers == 1..MaxContainers

----------------------------------------------------------------------------
(* Program constants. *)

\* the 300 of lines 146 and 150
DefaultWait == 300
\* LazyLoad.defaultProps.offset
DefaultOffset == 0

----------------------------------------------------------------------------
(* DOM geometry read by the visibility tests. *)

\* A window/document `w` is [supportPageOffset, css1, scrollY, innerHeight, clientHeight]:
\* scrollY is the document's scroll position; the three places a browser
\* exposes it are modelled below.
pageYOffset(w) == w.scrollY
documentElementScrollTop(w) == IF w.css1 THEN w.scrollY ELSE 0
bodyScrollTop(w) == IF w.css1 THEN 0 ELSE w.scrollY

\* node.getBoundingClientRect(): top is relative to the viewport.
getBoundingClientRect(node, w) ==
    [top |-> node.docTop - w.scrollY, height |-> node.height]

\* mutant: only the first entry of an array offset is used
normOffsets_firstOnly(offset) ==
    IF offset.isArray THEN <<offset.arr[1], offset.arr[1]>> ELSE <<offset.num, offset.num>>

\* Array.isArray(offset) ? offset : [offset, offset]
normOffsets(offset) ==
    IF offset.isArray THEN offset.arr ELSE <<offset.num, offset.num>>

\* mutant: the trailing offset is added instead of subtracted
checkNormalVisible_signflip(component, w) ==
    LET rect == getBoundingClientRect(component.node, w)
        scrollTop == IF w.supportPageOffset THEN pageYOffset(w)
                     ELSE IF w.css1 THEN documentElementScrollTop(w)
                     ELSE bodyScrollTop(w)
        elementTop == rect.top + scrollTop
        windowInnerHeight == IF w.innerHeight # 0 THEN w.innerHeight ELSE w.clientHeight
        elementBottom == elementTop + rect.height
        documentBottom == scrollTop + windowInnerHeight
        offsets == normOffsets(component.props.offset)
    IN  (elementTop >= (scrollTop - offsets[1])) /\
        ((elementBottom + offsets[2]) <= documentBottom)

\* mutant: the bottom edge is not tested
checkNormalVisible_toponly(component, w) ==
    LET rect == getBoundingClientRect(component.node, w)
        scrollTop == IF w.supportPageOffset THEN pageYOffset(w)
                     ELSE IF w.css1 THEN documentElementScrollTop(w)
                     ELSE bodyScrollTop(w)
        elementTop == rect.top + scrollTop
        offsets == normOffsets(component.props.offset)
    IN  elementTop >= (scrollTop - offsets[1])

\* checkNormalVisible (lines 45-69); offsets[0], offsets[1] are offsets[1], offsets[2] here
checkNormalVisible(component, w) ==
    LET rect == getBoundingClientRect(component.node, w)
        scrollTop == IF w.supportPageOffset THEN pageYOffset(w)
                     ELSE IF w.css1 THEN documentElementScrollTop(w)
                     ELSE bodyScrollTop(w)
        elementTop == rect.top + scrollTop
        windowInnerHeight == IF w.innerHeight # 0 THEN w.innerHeight ELSE w.clientHeight
        elementBottom == elementTop + rect.height
        documentBottom == scrollTop + windowInnerHeight
        offsets == normOffsets(component.props.offset)
    IN  (elementTop >= (scrollTop - offsets[1])) /\
        ((elementBottom - offsets[2]) <= documentBottom)

\* checkOverflowVisible (lines 22-38); parent is [scrollTop, offsetHeight]
checkOverflowVisible(component, parent) ==
    LET scrollTop == parent.scrollTop
        parentBottom == scrollTop + parent.offsetHeight
        elementHeight == component.node.height
        offsets == normOffsets(component.props.offset)
        elementTop == component.node.offsetTop
        elementBottom == elementTop + elementHeight
    IN  (elementTop >= (scrollTop - offsets[1])) /\
        ((elementBottom - offsets[2]) <= parentBottom)

----------------------------------------------------------------------------
(* The coordinator: input domains. *)

\* document tops / offsetTops and scroll positions used by the coordinator
MainTops == {0, 2}
\* rendered heights of the tracked elements
MainHeights == {1}

\* values of the throttle / debounce props: undefined, a boolean, a number
Undefined == [t |-> "undefined", n |-> 0]
Boolean == [t |-> "boolean", n |-> 0]
Number(n) == [t |-> "number", n |-> n]
\* the coordinator runs with two rate-limit choices, SpecMount with all of them
MainRates == {[debounce |-> Undefined, throttle |-> Undefined],
              [debounce |-> Number(100), throttle |-> Undefined]}
RateVals == {Undefined, Boolean, Number(100)}
AllRates == [debounce : RateVals, throttle : RateVals]

document == [kind |-> "document", id |-> 0]
container(c) == [kind |-> "container", id |-> c]

\* The props and the DOM position a LazyLoad is mounted with.  The overflow
\* prop is set exactly for elements placed in an overflow container (there at
\* offsetTop 0).  An element without children is a document element at top 0
\* with the default scroll and resize props.
MountInputs ==
    { p \in [once : BOOLEAN, overflow : BOOLEAN, scroll : BOOLEAN, resize : BOOLEAN,
             parent : {document} \cup {container(c) : c \in Containers},
             top : MainTops, height : MainHeights, children : BOOLEAN] :
        /\ p.overflow <=> (p.parent.kind = "container")
        /\ p.overflow => p.top = 0
        /\ ~p.children => (~p.overflow /\ p.top = 0 /\ p.scroll /\ ~p.resize) }

\* a LazyLoad instance before it is constructed
Unborn ==
    [life |-> "new", once |-> FALSE, overflow |-> FALSE, scroll |-> TRUE, resize |-> FALSE,
     parent |-> document, top |-> 0, height |-> 1, children |-> TRUE, visible |-> FALSE]

NullHandler == [mode |-> "null", wait |-> 0]

NoStep == [op |-> "init", elem |-> {}, onCalls |-> {}, bindCalls |-> {}, redrawn |-> {}]

NoLog == [start |-> {}, todo |-> {}, by |-> {}, self |-> FALSE, other |-> FALSE,
          again |-> FALSE]

NoProbe == [phase |-> "none"]

----------------------------------------------------------------------------
(* The coordinator: helpers. *)

\* listeners.indexOf(component): 0 stands for -1
indexOf(seq, e) ==
    IF \E i \in 1..Len(seq) : seq[i] = e
    THEN CHOOSE i \in 1..Len(seq) : seq[i] = e /\ \A j \in 1..(i - 1) : seq[j] # e
    ELSE 0

\* listeners.splice(index, 1), index 1-based
splice(seq, i) == [j \in 1..(Len(seq) - 1) |-> IF j < i THEN seq[j] ELSE seq[j + 1]]

\* mutant: the element is left where it is
removeOne_keep(seq, e) == seq

\* const index = indexOf(c); if (index !== -1) splice(index, 1)
removeOne(seq, e) == IF indexOf(seq, e) # 0 THEN splice(seq, indexOf(seq, e)) ELSE seq

\* ReactDom.findDOMNode(component): null once the component is unmounted, and
\* null while render() (lines 205-207) returns this.props.children of an
\* element that has none, which it does once this.visible is true
hasNode(c) == c.life = "mounted" /\ (c.children \/ ~c.visible)

\* scrollParent(node): the overflow container the node sits in, or the document
scrollParent(c) == c.parent

\* the component as the visibility tests read it
componentOf(c) ==
    [node |-> [docTop |-> c.top, offsetTop |-> c.top, height |-> c.height],
     props |-> [offset |-> [isArray |-> FALSE, num |-> DefaultOffset, arr |-> <<>>]]]

\* the window as the visibility tests read it (a browser with pageXOffset)
windowOf(w) ==
    [supportPageOffset |-> TRUE, css1 |-> TRUE, scrollY |-> w.scrollY,
     innerHeight |-> w.innerHeight, clientHeight |-> w.innerHeight]

\* mutant: the check goes on without a node (no early return at lines 80-82)
checkVisible_noNodeGuard(e, s) ==
    LET c == s.comp[e]
        parent == scrollParent(c)
        isOverflow == parent # document
        visible == IF isOverflow
                   THEN checkOverflowVisible(componentOf(c), s.cont[parent.id])
                   ELSE checkNormalVisible(componentOf(c), windowOf(s.win))
    IN  IF visible
        THEN IF ~c.visible
             THEN [s EXCEPT !.pending = IF c.once THEN Append(@, e) ELSE @,
                            !.comp[e].visible = TRUE,
                            !.forceUpdate = {e}]
             ELSE [s EXCEPT !.forceUpdate = {}]
        ELSE [s EXCEPT !.comp[e].visible = FALSE, !.forceUpdate = {}]

\* mutant: forceUpdate on every check that finds the element visible
checkVisible_alwaysUpdate(e, s) ==
    LET c == s.comp[e]
        parent == scrollParent(c)
        isOverflow == parent # document
        visible == IF isOverflow
                   THEN checkOverflowVisible(componentOf(c), s.cont[parent.id])
                   ELSE checkNormalVisible(componentOf(c), windowOf(s.win))
    IN  IF ~hasNode(c) THEN [s EXCEPT !.forceUpdate = {}]
        ELSE IF visible
             THEN [s EXCEPT !.pending = IF c.once /\ ~c.visible THEN Append(@, e) ELSE @,
                            !.comp[e].visible = TRUE,
                            !.forceUpdate = {e}]
             ELSE [s EXCEPT !.comp[e].visible = FALSE, !.forceUpdate = {}]

\* checkVisible (lines 78-105) on the state s = [comp, pending, win, cont];
\* forceUpdate is the set of components whose forceUpdate() it called
checkVisible(e, s) ==
    LET c == s.comp[e]
        parent == scrollParent(c)
        isOverflow == parent # document
        visible == IF isOverflow
                   THEN checkOverflowVisible(componentOf(c), s.cont[parent.id])
                   ELSE checkNormalVisible(componentOf(c), windowOf(s.win))
    IN  IF ~hasNode(c) THEN [s EXCEPT !.forceUpdate = {}]
        ELSE IF visible
             THEN IF ~c.visible
                  THEN [s EXCEPT !.pending = IF c.once THEN Append(@, e) ELSE @,
                                 !.comp[e].visible = TRUE,
                                 !.forceUpdate = {e}]
                  ELSE [s EXCEPT !.forceUpdate = {}]
             ELSE [s EXCEPT !.comp[e].visible = FALSE, !.forceUpdate = {}]

\* mutant: only the first queued component is spliced out
purgePending_headOnly(ls, pd) == IF pd = <<>> THEN ls ELSE removeOne(ls, Head(pd))

\* mutant: the queue is cleared but nothing is spliced out
purgePending_noSplice(ls, pd) == ls

RECURSIVE purgePending(_, _)
\* purgePending (lines 108-117): the listeners left after the forEach
purgePending(ls, pd) ==
    IF pd = <<>> THEN ls ELSE purgePending(removeOne(ls, Head(pd)), Tail(pd))

\* lines 142-152: the handler created from the mounting element's props
makeHandler(props) ==
    IF props.debounce.t # "undefined"
    THEN [mode |-> "debounce",
          wait |-> IF props.throttle.t = "number" THEN props.throttle.n ELSE DefaultWait]
    ELSE [mode |-> "throttle",
          wait |-> IF props.debounce.t = "number" THEN props.debounce.n ELSE DefaultWait]

\* mutant: every mount creates the handler anew
needsHandler_always(h) == TRUE

\* line 142: if (!finalLazyLoadHandler)
needsHandler(h) == h = NullHandler

\* mutant: the component is pushed twice
register_twice(ls, e) == Append(Append(ls, e), e)

\* line 172: listeners.push(this)
register(ls, e) == Append(ls, e)

\* mutant: the container's listener is attached without looking at LISTEN_FLAG
bindsContainer_always(p, parentNode) == p.overflow

\* mutant: window listeners are attached by every mount of a non-overflow element
bindsWindow_everyMount(p, ls) == ~p.overflow

\* lines 154 and 160: the mount attaches window listeners when the element is
\* not an overflow element and the registry is empty
bindsWindow(p, ls) == ~p.overflow /\ Len(ls) = 0

\* lines 154-156: the mount attaches the container's scroll listener when the
\* element is an overflow element and the container carries no LISTEN_FLAG
bindsContainer(p, parentNode) == p.overflow /\ ~parentNode.flag

\* reveals after a step that takes comp to comp2
countReveals(comp1, comp2, r) ==
    [e \in Elems |-> IF ~comp1[e].visible /\ comp2[e].visible /\ r[e] < MaxReveals
                     THEN r[e] + 1 ELSE r[e]]

----------------------------------------------------------------------------
(* The coordinator: initial state and the rate limiter. *)

InitCoord ==
    /\ listeners = <<>>
    /\ pending = <<>>
    /\ finalLazyLoadHandler = NullHandler
    /\ comp = [e \in Elems |-> Unborn]
    /\ win = [scrollY |-> 0, innerHeight |-> 1, scroll |-> FALSE, resize |-> FALSE]
    /\ cont = [c \in Containers |->
                 [scrollTop |-> 0, offsetHeight |-> 1, flag |-> FALSE, listener |-> FALSE]]
    /\ timer = "idle"
    /\ pc = "idle"
    /\ idx = 1
    /\ rendering = FALSE
    /\ last = NoStep
    /\ reveals = [e \in Elems |-> 0]
    /\ firstProps = [debounce |-> Undefined, throttle |-> Undefined]
    /\ passLog = NoLog

Init == InitCoord /\ probe = NoProbe

\* the log of a pass that starts on the registry ls
StartLog(ls) ==
    [NoLog EXCEPT !.start = {ls[i] : i \in 1..Len(ls)}, !.todo = {ls[i] : i \in 1..Len(ls)}]

\* finalLazyLoadHandler() is called by a listener.  debounce: (re)arm the
\* timer.  throttle: run lazyLoadHandler now when no interval is running,
\* otherwise ask for one trailing run.  `runs` says whether lazyLoadHandler
\* starts now.
invoke(h, t) ==
    IF h.mode = "debounce" THEN [timer |-> "waiting", runs |-> FALSE]
    ELSE IF t = "idle" THEN [timer |-> "cooling", runs |-> TRUE]
    ELSE [timer |-> "trailing", runs |-> FALSE]

\* the effect on timer, pc, idx of an event of which `heard` says whether a
\* listener of the coordinator is attached for it
Dispatch(heard) ==
    LET r == invoke(finalLazyLoadHandler, timer)
    IN  IF heard
        THEN /\ timer' = r.timer
             /\ pc' = IF r.runs THEN "pass" ELSE "idle"
             /\ idx' = 1
             /\ passLog' = IF r.runs THEN StartLog(listeners) ELSE NoLog
        ELSE /\ passLog' = NoLog
             /\ UNCHANGED <<timer, pc, idx>>

----------------------------------------------------------------------------
(* The coordinator: actions. *)

\* React may mount or unmount components between events, and synchronously
\* inside the render a forceUpdate() of the running pass has started.
MayRender == pc = "idle" \/ rendering

\* componentDidMount (lines 141-174) of element e constructed with inputs p
\* and rate-limit props r; elements are numbered in the order they are constructed
Mount(e, p, r) ==
    /\ MayRender
    /\ comp[e].life = "new"
    /\ \A d \in Elems : d < e => comp[d].life # "new"
    /\ LET this == [life |-> "mounted", once |-> p.once, overflow |-> p.overflow,
                    scroll |-> p.scroll, resize |-> p.resize, parent |-> p.parent,
                    top |-> p.top, height |-> p.height, children |-> p.children,
                    visible |-> FALSE]
           create == needsHandler(finalLazyLoadHandler)
           parent == scrollParent(this)
           bindContainer == p.overflow /\ bindsContainer(p, cont[parent.id])
           bindWindow == bindsWindow(p, listeners)
           cont1 == IF bindContainer
                    THEN [cont EXCEPT ![parent.id].listener = TRUE, ![parent.id].flag = TRUE]
                    ELSE cont
           win1 == IF bindWindow
                   THEN [win EXCEPT !.scroll = @ \/ p.scroll, !.resize = @ \/ p.resize]
                   ELSE win
           s == checkVisible(e, [comp |-> [comp EXCEPT ![e] = this], pending |-> pending,
                                 win |-> win1, cont |-> cont1, forceUpdate |-> {}])
       IN  /\ finalLazyLoadHandler' = IF create THEN makeHandler(r) ELSE finalLazyLoadHandler
           /\ firstProps' = IF create THEN r
                            ELSE firstProps
           /\ cont' = cont1
           /\ win' = win1
           /\ listeners' = register(listeners, e)
           /\ comp' = s.comp
           /\ pending' = s.pending
           /\ reveals' = countReveals(comp, s.comp, reveals)
           /\ last' = [op |-> "mount", elem |-> {e},
                       onCalls |-> IF bindWindow
                                   THEN {k \in {"scroll", "resize"} :
                                           (k = "scroll" /\ p.scroll) \/ (k = "resize" /\ p.resize)}
                                   ELSE {},
                       bindCalls |-> IF bindContainer THEN {parent.id} ELSE {},
                       redrawn |-> s.forceUpdate]
    /\ passLog' = IF pc = "pass" THEN passLog ELSE NoLog
    /\ UNCHANGED <<timer, pc, idx, rendering, probe>>

\* componentWillUnmount (lines 180-198) of element e; the props of an
\* unmounted instance are never read again and, but for once, are forgotten
Unmount(e) ==
    /\ MayRender
    /\ comp[e].life = "mounted"
    /\ LET this == comp[e]
           parent == scrollParent(this)
           listeners1 == removeOne(listeners, e)
       IN  /\ cont' = IF this.overflow
                      THEN [cont EXCEPT ![parent.id].listener = FALSE, ![parent.id].flag = FALSE]
                      ELSE cont
           /\ listeners' = listeners1
           /\ win' = IF Len(listeners1) = 0
                     THEN [win EXCEPT !.scroll = FALSE, !.resize = FALSE]
                     ELSE win
           /\ comp' = [comp EXCEPT ![e] = [Unborn EXCEPT !.life = "gone",
                                                          !.once = this.once,
                                                          !.visible = this.visible]]
           /\ last' = [op |-> "unmount", elem |-> {e}, onCalls |-> {}, bindCalls |-> {},
                       redrawn |-> {}]
    /\ passLog' = IF pc = "pass"
                  THEN [passLog EXCEPT !.self = @ \/ (e \in passLog.by),
                                       !.other = @ \/ (e \notin passLog.by)]
                  ELSE NoLog
    /\ UNCHANGED <<pending, finalLazyLoadHandler, timer, pc, idx, rendering, reveals,
                   firstProps, probe>>

EventStep == [op |-> "event", elem |-> {}, onCalls |-> {}, bindCalls |-> {}, redrawn |-> {}]

\* the user scrolls the window to y
WindowScroll(y) ==
    /\ pc = "idle"
    /\ y # win.scrollY
    /\ win' = [win EXCEPT !.scrollY = y]
    /\ Dispatch(win.scroll)
    /\ last' = EventStep
    /\ UNCHANGED <<listeners, pending, finalLazyLoadHandler, comp, cont, rendering, reveals,
                   firstProps, probe>>

\* the user resizes the window (its height stays as it is)
WindowResize ==
    /\ pc = "idle"
    /\ Dispatch(win.resize)
    /\ last' = EventStep
    /\ UNCHANGED <<listeners, pending, finalLazyLoadHandler, comp, win, cont, rendering,
                   reveals, firstProps, probe>>

\* the user scrolls container c to y
ContainerScroll(c, y) ==
    /\ pc = "idle"
    /\ y # cont[c].scrollTop
    /\ cont' = [cont EXCEPT ![c].scrollTop = y]
    /\ Dispatch(cont[c].listener)
    /\ last' = EventStep
    /\ UNCHANGED <<listeners, pending, finalLazyLoadHandler, comp, win, rendering, reveals,
                   firstProps, probe>>

\* the rate limiter's timer fires: a debounced or trailing call runs
\* lazyLoadHandler, a throttle interval without calls just ends
TimerFire ==
    /\ pc = "idle"
    /\ timer # "idle"
    /\ timer' = IF timer = "trailing" THEN "cooling" ELSE "idle"
    /\ pc' = IF timer \in {"waiting", "trailing"} THEN "pass" ELSE "idle"
    /\ idx' = 1
    /\ passLog' = IF timer \in {"waiting", "trailing"} THEN StartLog(listeners) ELSE NoLog
    /\ last' = [EventStep EXCEPT !.op = "timer"]
    /\ UNCHANGED <<listeners, pending, finalLazyLoadHandler, comp, win, cont, rendering,
                   reveals, firstProps, probe>>

\* one iteration of the loop of lazyLoadHandler (lines 121-124)
PassStep ==
    /\ pc = "pass"
    /\ idx <= Len(listeners)
    /\ LET e == listeners[idx]
           s == checkVisible(e, [comp |-> comp, pending |-> pending, win |-> win,
                                 cont |-> cont, forceUpdate |-> {}])
       IN  /\ comp' = s.comp
           /\ pending' = s.pending
           /\ rendering' = (s.forceUpdate # {})
           /\ reveals' = countReveals(comp, s.comp, reveals)
           /\ last' = [op |-> "check", elem |-> {e}, onCalls |-> {}, bindCalls |-> {},
                       redrawn |-> s.forceUpdate]
           /\ passLog' = [passLog EXCEPT !.todo = @ \ {e}, !.by = s.forceUpdate,
                                         !.again = @ \/ (e \in passLog.start \ passLog.todo)]
    /\ idx' = idx + 1
    /\ UNCHANGED <<listeners, finalLazyLoadHandler, win, cont, timer, pc, firstProps, probe>>

\* the end of lazyLoadHandler (lines 126-127): purgePending()
PassEnd ==
    /\ pc = "pass"
    /\ idx > Len(listeners)
    /\ listeners' = purgePending(listeners, pending)
    /\ pending' = <<>>
    /\ pc' = "idle"
    /\ idx' = 1
    /\ rendering' = FALSE
    /\ last' = [op |-> "purge", elem |-> {pending[i] : i \in 1..Len(pending)},
                onCalls |-> {}, bindCalls |-> {}, redrawn |-> {}]
    /\ passLog' = [passLog EXCEPT !.by = {}]
    /\ UNCHANGED <<finalLazyLoadHandler, comp, win, cont, timer, reveals, firstProps, probe>>

Next ==
    \/ \E e \in Elems, p \in MountInputs, r \in MainRates : Mount(e, p, r)
    \/ \E e \in Elems : Unmount(e)
    \/ \E y \in MainTops : WindowScroll(y)
    \/ WindowResize
    \/ \E c \in Containers, y \in MainTops : ContainerScroll(c, y)
    \/ TimerFire
    \/ PassStep
    \/ PassEnd

Spec == Init /\ [][Next]_vars

----------------------------------------------------------------------------
(* SpecMount: mounts and unmounts only, with every combination of the        *)
(* throttle and debounce props.                                              *)

NextMount ==
    \/ \E e \in Elems, p \in MountInputs, r \in AllRates : Mount(e, p, r)
    \/ \E e \in Elems : Unmount(e)

SpecMount == Init /\ [][NextMount]_vars

----------------------------------------------------------------------------
(* SpecGeom: the visibility tests on bounded geometry.                       *)

\* the values of the scenario of the specification's section 8 are added to
\* the small ranges
GeomTops == 0..MaxCoord \cup {500}
GeomHeights == 0..MaxExtent \cup {50}
GeomScrolls == 0..MaxCoord \cup {200}
GeomViews == 0..MaxExtent \cup {400}
OffsetVals == -1..MaxOffset

\* the offset prop: a number, or an array of two numbers
OffsetProps ==
    {[isArray |-> FALSE, num |-> n, arr |-> <<>>] : n \in OffsetVals}
    \cup {[isArray |-> TRUE, num |-> 0, arr |-> <<a, b>>] : a, b \in OffsetVals}

GeomComponents ==
    {[node |-> [docTop |-> t, offsetTop |-> t, height |-> h], props |-> [offset |-> o]] :
        t \in GeomTops, h \in GeomHeights, o \in OffsetProps}

\* browsers with and without pageXOffset, in standards and quirks mode, with
\* and without window.innerHeight (0 stands for undefined)
GeomWindows ==
    {[supportPageOffset |-> sp, css1 |-> cm, scrollY |-> y,
      innerHeight |-> IF ih THEN v ELSE 0, clientHeight |-> v] :
        sp \in BOOLEAN, cm \in BOOLEAN, ih \in BOOLEAN, y \in GeomScrolls, v \in GeomViews}

GeomParents ==
    {[scrollTop |-> y, offsetHeight |-> v, flag |-> FALSE, listener |-> FALSE] :
        y \in GeomScrolls, v \in GeomViews}

ProbeInputs ==
    {[phase |-> "input", mode |-> "normal", component |-> c, env |-> w, result |-> FALSE] :
        c \in GeomComponents, w \in GeomWindows}
    \cup
    {[phase |-> "input", mode |-> "overflow", component |-> c, env |-> q, result |-> FALSE] :
        c \in GeomComponents, q \in GeomParents}

InitGeom == InitCoord /\ probe \in ProbeInputs

ProbeNormal ==
    /\ probe.phase = "input"
    /\ probe.mode = "normal"
    /\ probe' = [probe EXCEPT !.phase = "done",
                              !.result = checkNormalVisible(probe.component, probe.env)]
    /\ UNCHANGED coordVars

ProbeOverflow ==
    /\ probe.phase = "input"
    /\ probe.mode = "overflow"
    /\ probe' = [probe EXCEPT !.phase = "done",
                              !.result = checkOverflowVisible(probe.component, probe.env)]
    /\ UNCHANGED coordVars

NextGeom == ProbeNormal \/ ProbeOverflow

SpecGeom == InitGeom /\ [][NextGeom]_vars

----------------------------------------------------------------------------
(* Properties of the coordinator (Spec).                                     *)

\* C1: in every step, an element receives forceUpdate() exactly when the step
\* changes its visible flag from false to true; a check that leaves the flag
\* true, leaves it false or changes it from true to false signals nothing.
C1_RedrawIffReveal ==
    [][\A e \in Elems : (e \in last'.redrawn) <=> (~comp[e].visible /\ comp'[e].visible)]_vars

\* C1 witness: a pass has just revealed, with a redraw, an element for the
\* second time (it was revealed, hidden again without a signal, and revealed).
C1_Witness ==
    \E e \in Elems : last.op = "check" /\ last.redrawn = {e} /\ reveals[e] = 2

\* C2: an element with once=true makes the false -> true change of its
\* visible flag at most once over its whole lifetime.
C2_OnceRevealedAtMostOnce ==
    \A e \in Elems : comp[e].once => reveals[e] <= 1

\* C2 witness: a once element that was revealed by the check at mount, was
\* checked again and found hidden by a later pass, and has been purged.
C2_Witness ==
    \E e \in Elems :
        /\ comp[e].once /\ comp[e].life = "mounted"
        /\ reveals[e] = 1 /\ ~comp[e].visible
        /\ indexOf(listeners, e) = 0
        /\ pc = "idle"

\* C3 (as claimed): a pass never runs the visibility check on a once element
\* that was revealed before: when a pass has just checked a once element that
\* has been revealed, it is this check that revealed it.
C3_OnceNeverCheckedAfterReveal ==
    \A e \in Elems :
        (last.op = "check" /\ e \in last.elem /\ comp[e].once /\ reveals[e] >= 1)
            => e \in last.redrawn

\* C4 (as claimed): between events, an empty registry means that no window
\* scroll or resize listener of the coordinator is attached.
C4_DetachedWhenRegistryEmpty ==
    (pc = "idle" /\ Len(listeners) = 0) => (~win.scroll /\ ~win.resize)

\* a step that is the mount of e
IsMountOf(e) == comp[e].life = "new" /\ comp'[e].life = "mounted"

\* C5 (as claimed): a mount calls on(window, ...) exactly when it takes the
\* registry from empty to non-empty.
C5_AttachIffZeroToOne ==
    [][\A e \in Elems : IsMountOf(e) => ((last'.onCalls # {}) <=> (Len(listeners) = 0))]_vars

\* C5 (amended): a mount into a non-empty registry makes no on(window, ...)
\* call; a mount into the empty registry makes no call for an overflow
\* element, and for a non-overflow element exactly the calls its scroll and
\* resize props ask for.
C5_AttachOnlyZeroToOneAsAsked ==
    [][\A e \in Elems : IsMountOf(e) =>
          last'.onCalls =
             IF Len(listeners) = 0 /\ ~comp'[e].overflow
             THEN {k \in {"scroll", "resize"} :
                     (k = "scroll" /\ comp'[e].scroll) \/ (k = "resize" /\ comp'[e].resize)}
             ELSE {}]_vars

\* C5 witness: the second of two non-overflow elements has just mounted
\* without any attach call, the first one's mount having attached both
\* window listeners.
C5_Witness ==
    /\ last.op = "mount" /\ last.onCalls = {}
    /\ Len(listeners) = 2
    /\ \A i \in 1..2 : ~comp[listeners[i]].overflow
    /\ comp[listeners[2]].scroll
    /\ win.scroll /\ win.resize

\* C6 (as claimed): while a mounted overflow element uses a container, the
\* container's scroll listener is attached and its LISTEN_FLAG is set.
C6_ContainerBoundWhileUsed ==
    \A c \in Containers :
        (\E e \in Elems : comp[e].life = "mounted" /\ comp[e].overflow
                          /\ comp[e].parent = container(c))
            => (cont[c].listener /\ cont[c].flag)

----------------------------------------------------------------------------
(* Properties of the handler's creation (SpecMount).                         *)

\* the mode and interval the claim gives for the props of the first element
C7_Claimed(props) ==
    IF props.debounce.t # "undefined"
    THEN [mode |-> "debounce",
          wait |-> IF props.debounce.t = "number" THEN props.debounce.n ELSE DefaultWait]
    ELSE [mode |-> "throttle",
          wait |-> IF props.throttle.t = "number" THEN props.throttle.n ELSE DefaultWait]

\* C7 (as claimed): the handler is Debounce at the debounce value (300 when
\* it is no number) if the first element's debounce prop is defined, else
\* Throttle at the throttle value (300 when it is no number).
C7_LimiterFromFirstProps ==
    finalLazyLoadHandler # NullHandler => finalLazyLoadHandler = C7_Claimed(firstProps)

----------------------------------------------------------------------------
(* Properties of the visibility tests (SpecGeom).                            *)

ProbeTop == probe.component.node.docTop
ProbeBottom == probe.component.node.docTop + probe.component.node.height
ProbeOffset == probe.component.props.offset
ProbeDoneNormal == probe.phase = "done" /\ probe.mode = "normal"
ProbeZeroOffset ==
    IF ProbeOffset.isArray THEN ProbeOffset.arr = <<0, 0>> ELSE ProbeOffset.num = 0

\* C8 (as claimed): in document mode with offset 0 the test is true iff the
\* box [elementTop, elementTop + height] intersects
\* [scrollTop, scrollTop + viewportHeight].
C8_VisibleIffIntersects ==
    (ProbeDoneNormal /\ ProbeZeroOffset) =>
        (probe.result <=>
            (ProbeTop <= probe.env.scrollY + probe.env.clientHeight
             /\ ProbeBottom >= probe.env.scrollY))

\* C8 (amended): in document mode with offset 0 the test is true iff the box
\* [elementTop, elementTop + height] lies within
\* [scrollTop, scrollTop + viewportHeight].
C8_VisibleIffContained ==
    (ProbeDoneNormal /\ ProbeZeroOffset) =>
        (probe.result <=>
            (probe.env.scrollY <= ProbeTop
             /\ ProbeBottom <= probe.env.scrollY + probe.env.clientHeight))

\* C8 witness: an element of positive height in a scrolled window is found
\* visible with offset 0.
C8_Witness ==
    /\ ProbeDoneNormal /\ ProbeZeroOffset /\ probe.result
    /\ probe.component.node.height > 0 /\ probe.env.scrollY > 0

\* C9: in document mode the test is true iff elementTop >= scrollTop - leading
\* and elementBottom - trailing <= scrollTop + viewportHeight, a number n
\* standing for the pair (n, n); the element at top 500 of height 50 with
\* offset 0 in a viewport of height 400 is hidden at scrollTop 0 and visible
\* at scrollTop 200.
C9_DocumentModeInequality ==
    ProbeDoneNormal =>
        LET leading == IF ProbeOffset.isArray THEN ProbeOffset.arr[1] ELSE ProbeOffset.num
            trailing == IF ProbeOffset.isArray THEN ProbeOffset.arr[2] ELSE ProbeOffset.num
            scenario == /\ ProbeTop = 500 /\ probe.component.node.height = 50
                        /\ ProbeZeroOffset /\ probe.env.clientHeight = 400
        IN  /\ probe.result <=>
                  (ProbeTop >= probe.env.scrollY - leading
                   /\ ProbeBottom - trailing <= probe.env.scrollY + probe.env.clientHeight)
            /\ (scenario /\ probe.env.scrollY = 0) => ~probe.result
            /\ (scenario /\ probe.env.scrollY = 200) => probe.result

\* C9 witness: the scenario's element, tested at scrollTop 200, is visible.
C9_Witness ==
    /\ ProbeDoneNormal /\ probe.result
    /\ ProbeTop = 500 /\ probe.component.node.height = 50
    /\ ProbeOffset = [isArray |-> FALSE, num |-> 0, arr |-> <<>>]
    /\ probe.env.clientHeight = 400 /\ probe.env.scrollY = 200

\* the probe's test applied with the offset pair <<a, b>> instead
ProbeWithOffsets(a, b) ==
    LET c == [probe.component EXCEPT
                 !.props.offset = [isArray |-> TRUE, num |-> 0, arr |-> <<a, b>>]]
    IN  IF probe.mode = "normal"
        THEN checkNormalVisible(c, probe.env)
        ELSE checkOverflowVisible(c, probe.env)

\* C10: in both modes, an element visible with the offset pair (a, b) is
\* visible, in the same geometry, with every pair (a2, b2), a2 >= a, b2 >= b.
C10_MonotoneInOffsets ==
    (probe.phase = "done" /\ probe.result) =>
        LET o == normOffsets(ProbeOffset)
        IN  \A a2, b2 \in OffsetVals :
                (a2 >= o[1] /\ b2 >= o[2]) => ProbeWithOffsets(a2, b2)

\* C10 witness: a container-mode element visible with an offset pair that it
\* needs: with some smaller pair it is not visible.
C10_Witness ==
    /\ probe.phase = "done" /\ probe.mode = "overflow" /\ probe.result
    /\ ProbeOffset.isArray
    /\ \E a0, b0 \in OffsetVals :
          a0 <= ProbeOffset.arr[1] /\ b0 <= ProbeOffset.arr[2] /\ ~ProbeWithOffsets(a0, b0)

\* C11: an unmounted element is out of the registry from the step that
\* unmounts it, whatever its visible flag and whether or not it is queued in
\* pending; and from then on no step (event, timer, pass step, purge, mount or
\* unmount of another element) changes its visible flag or re-renders it.
C11_GoneForGood ==
    [][\A e \in Elems :
          comp'[e].life = "gone" =>
              /\ indexOf(listeners', e) = 0
              /\ comp[e].life = "gone" =>
                    /\ comp'[e].visible = comp[e].visible
                    /\ e \notin last'.redrawn]_vars

\* an element unmounted while queued in pending, and the delayed handler's
\* timer has fired after the unmount: the pass is running
C11_Witness ==
    \E e \in Elems :
        /\ comp[e].life = "gone" /\ comp[e].visible
        /\ indexOf(pending, e) # 0
        /\ last.op = "timer" /\ pc = "pass"

\* C12: a pass step on a registered element whose node does not resolve
\* changes no visible flag, neither pending nor the registry, re-renders
\* nothing, and the loop goes on with the next index; and a pass in which
\* nothing was unmounted has, when it ends, visited every element that was
\* registered when it started.
C12_NullNodeSkipped ==
    /\ [][(/\ pc = "pass" /\ idx' = idx + 1 /\ idx <= Len(listeners)
           /\ ~hasNode(comp[listeners[idx]]))
              => /\ comp' = comp /\ pending' = pending /\ listeners' = listeners
                 /\ last'.redrawn = {}
                 /\ pc' = "pass"]_vars
    /\ []((last.op = "purge" /\ ~passLog.self /\ ~passLog.other) => passLog.todo = {})

\* a pass has skipped a mounted element without a node and has then checked
\* the element behind it
C12_Witness ==
    \E a, b \in Elems :
        /\ a # b /\ listeners = <<a, b>>
        /\ comp[a].life = "mounted" /\ ~hasNode(comp[a])
        /\ pc = "pass" /\ last.op = "check" /\ last.elem = {b}
        /\ a \in passLog.start /\ a \notin passLog.todo

\* C13 (as claimed): a pass works on the registry it found when it started:
\* every element it checks was registered at its start, and when it ends every
\* element that was registered at its start and is still mounted has been
\* checked exactly once, and no unmounted element is left in the registry.
C13_PassOverStartSet ==
    /\ last.op = "check" => last.elem \subseteq passLog.start
    /\ last.op = "purge" =>
          /\ \A e \in passLog.start :
                comp[e].life = "mounted" => (e \notin passLog.todo /\ ~passLog.again)
          /\ \A i \in 1..Len(listeners) : comp[listeners[i]].life = "mounted"

\* C14 (as claimed): outside a pass (after a mount, after an unmount, after a
\* completed pass) the pending sequence is empty.
C14_PendingEmptyOutsidePass ==
    pc = "idle" => pending = <<>>

\* the elements of a sequence
Range(seq) == {seq[i] : i \in 1..Len(seq)}

C16_RegisteredAtMostOnce ==
    \A i, j \in 1..Len(listeners) : i # j => listeners[i] # listeners[j]

\* a pass has gone through a registry of two elements
C16_Witness ==
    /\ Len(listeners) = 2 /\ pc = "pass" /\ idx = 3
    /\ \E e \in Elems : e \in last.elem /\ last.op = "check"

\* C17: a container carries LISTEN_FLAG exactly when the coordinator's scroll
\* listener is attached to it, and a mount calls addEventListener on a
\* container only when no listener is attached to it yet.
C17_FlagIffListenerOnce ==
    /\ [](\A c \in Containers : cont[c].flag <=> cont[c].listener)
    /\ [][\A c \in Containers : c \in last'.bindCalls => ~cont[c].listener]_vars

\* a second overflow element has mounted into a container that the first one
\* has bound: no second addEventListener call
C17_Witness ==
    \E a, b \in Elems, c \in Containers :
        /\ a # b /\ listeners = <<a, b>>
        /\ comp[a].parent = container(c) /\ comp[b].parent = container(c)
        /\ last.op = "mount" /\ last.elem = {b} /\ last.bindCalls = {}
        /\ cont[c].flag /\ cont[c].listener

\* C18: once created, the handler (its mode and its interval) is never
\* replaced: no mount, unmount or other step changes it, also not a mount into
\* a registry that has become empty.
C18_HandlerNeverReplaced ==
    [][finalLazyLoadHandler # NullHandler
          => finalLazyLoadHandler' = finalLazyLoadHandler]_vars

\* the first element is gone, the second one has mounted into the empty
\* registry, and the handler is the one made from the first element's props
C18_Witness ==
    /\ comp[1].life = "gone" /\ listeners = <<2>>
    /\ last.op = "mount" /\ last.elem = {2}
    /\ firstProps.debounce # Undefined
    /\ finalLazyLoadHandler = makeHandler(firstProps)

\* C19 (as claimed): between events, a registered element with overflow =
\* false and scroll = true means the window scroll listener is attached, and
\* one with overflow = false and resize = true means the window resize
\* listener is attached.
C19_WindowBoundWhileAsked ==
    pc = "idle" =>
        \A i \in 1..Len(listeners) :
            LET c == comp[listeners[i]]
            IN  /\ (~c.overflow /\ c.scroll) => win.scroll
                /\ (~c.overflow /\ c.resize) => win.resize

\* C20 (as claimed): a once element that has been revealed has its visible
\* flag set in every later state.
C20_OnceStaysVisible ==
    \A e \in Elems : (comp[e].once /\ reveals[e] >= 1) => comp[e].visible

====
